---- MODULE Spec2Model ----
(***************************************************************************)
(* Model of app/engine/controller.py : EngineController.                   *)
(*                                                                         *)
(* Every `with self._lock:` block of the source is one atomic action (the  *)
(* lock makes the block mutually exclusive with every other locked block); *)
(* every statement the worker executes outside the lock (the loop test,    *)
(* the price fetch, each _record call, each sleep) is an action of its     *)
(* own.  stop() is two locked blocks separated by thread.join(timeout).    *)
(* Time is not modelled: a join may time out whenever the joined thread is *)
(* still alive, and updated_at / market / paper_mode are left out.         *)
(***************************************************************************)
EXTENDS Integers, Sequences, FiniteSets, TLC

(* ---------------------------- bounds ---------------------------------- *)
\* number of worker threads start() may spawn in one behaviour
MaxWorkers == 2
\* number of caller threads that may be inside a public operation
MaxCallers == 2
\* prices returned by _fetch_price are drawn from 1..MaxPrice
MaxPrice == 2
\* max_consecutive_failures is drawn from 1..MaxThreshold at construction
MaxThreshold == 2
\* no new public call and no new loop iteration begins once the event log
\* holds this many entries (work already begun always completes)
MaxEvents == 4
\* thresholds of the always-failing scenario
FailMaxThreshold == 4
\* event budget of the scenario in which the engine is restarted
RaceMaxEvents == 6
\* events appended in the scenario that starts from a long event log
LogMaxEvents == 3
\* largest small `limit` passed to recent_events
MaxLimit == 3
\* event budget of the scenario that follows the lock step by step
LockMaxEvents == 3

(* ------------------------ program constants --------------------------- *)
\* deque(maxlen=500)
EventCapacity == 500

IDLE == "IDLE"
RUNNING == "RUNNING"
STOPPING == "STOPPING"
ERROR == "ERROR"
EngineStatus == {IDLE, RUNNING, STOPPING, ERROR}

\* Python's None for last_error / previous_price / self._thread
NoError == "None"
NoPrice == 0
NoThread == 0

Workers == 1..MaxWorkers
Callers == 1..MaxCallers
Prices == 1..MaxPrice
\* str(exc) of the exceptions _fetch_price raises (non-empty descriptions)
Failures == {"boom"}

VARIABLES
    snapshot,     \* self._snapshot
    stop_event,   \* self._stop_event (TRUE = set)
    thread,       \* self._thread: id of the most recently spawned worker
    events,       \* self._events
    wpc,          \* position of each worker thread in _run_loop
    wlocal,       \* locals of each worker: price, previous_price, signal, failures, exc
    cpc,          \* position of each caller: "ready", or "join" / "joined" inside stop()
    clocal,       \* stop()'s local `thread`, the status it found, and how its join ended
    ret,          \* the snapshot most recently returned by a public operation
    always_fail,  \* TRUE when the patched _fetch_price raises on every call
    cap,          \* the event budget of the scenario (a bound of the model)
    lock,         \* self._lock: the thread inside a `with self._lock:` block, or Free
    recent,       \* the limit and the result of the latest recent_events call
    after_cancel  \* per worker: fetches returned and poll results applied while
                  \* the stop event has been set (history, for the claims)

vars == <<snapshot, stop_event, thread, events, wpc, wlocal, cpc, clocal, ret,
          always_fail, cap, lock, recent, after_cancel>>

\* the limits passed to recent_events: small ones, and one above capacity
Limits == (0..MaxLimit) \cup {EventCapacity + 1}

(* ----------------------------- helpers -------------------------------- *)
\* EngineEvent(ts, level, message); args carries the formatted values
Event(level, message, args) == [level |-> level, message |-> message, args |-> args]

\* deque(maxlen=500).append
DequeAppend(q, e) ==
    IF Len(q) >= EventCapacity THEN Append(Tail(q), e) ELSE Append(q, e)

\* EngineController._record
Record(q, level, message, args) == DequeAppend(q, Event(level, message, args))

\* bool(t and t.is_alive()) when the workers are at positions pcs:
\* a thread is alive from Thread.start() until _run_loop returns
IsAliveIn(pcs, t) == t # NoThread /\ pcs[t] \notin {"unborn", "done"}

IsAlive(t) == IsAliveIn(wpc, t)

\* EngineController._clone_snapshot_locked applied to snapshot s, when
\* self._thread is t and the workers are at positions pcs
CloneSnapshot(s, t, pcs) == [s EXCEPT !.thread_alive = IsAliveIn(pcs, t)]

\* EngineController._make_signal
MakeSignal(previous_price, current_price) ==
    IF previous_price = NoPrice THEN "HOLD"
    ELSE IF current_price > previous_price THEN "BUY"
    ELSE IF current_price < previous_price THEN "SELL"
    ELSE "HOLD"

\* what a public operation hands back: the cloned snapshot, tagged with the
\* operation and the status it found on entry
Returned(op, pre, s, exited) ==
    [op |-> op, pre |-> pre, status |-> s.status, thread_alive |-> s.thread_alive,
     last_error |-> s.last_error, consecutive_failures |-> s.consecutive_failures,
     iteration |-> s.iteration, last_price |-> s.last_price,
     last_signal |-> s.last_signal, exited |-> exited]

NoLocals == [price |-> NoPrice, previous_price |-> NoPrice, signal |-> "HOLD",
             failures |-> 0, exc |-> NoError]

NoCallerLocals == [handle |-> NoThread, entry |-> IDLE, exited |-> FALSE]

\* EngineSnapshot defaults, with max_consecutive_failures from the constructor
InitialSnapshot(n) ==
    [status |-> IDLE, iteration |-> 0, last_price |-> NoPrice, last_signal |-> "HOLD",
     last_error |-> NoError, consecutive_failures |-> 0,
     max_consecutive_failures |-> n, thread_alive |-> FALSE]

\* a new public call or a new loop iteration may begin; the always-failing
\* scenario ends by itself and needs no cap
Budget == always_fail \/ Len(events) < cap

\* caller c is outside any call and makes the next one: the callers
\* outside a call are interchangeable, so the lowest-numbered of them calls
Ready(c) ==
    /\ cpc[c] = "ready"
    /\ \A d \in Callers : d < c => cpc[d] # "ready"

\* threading.Lock: unlocked, or held by a caller or by a worker
Free == <<"free", 0>>
CallerId(c) == <<"caller", c>>
WorkerId(w) == <<"worker", w>>

\* a `with self._lock:` block run to its end by thread id: the lock is taken
\* unless id already holds it, and released
WithLock(id) == lock \in {Free, id} /\ lock' = Free

\* recent_events has not been called
NoRecent == [called |-> FALSE, limit |-> 0, entries |-> <<>>]

NoCounts == [fetches |-> 0, updates |-> 0]

\* worker w had a fetch return while the stop event is set
CountFetch(w) ==
    after_cancel' = IF stop_event
                    THEN [after_cancel EXCEPT ![w].fetches = @ + 1]
                    ELSE after_cancel

\* worker w applied a poll result while the stop event is set
CountUpdate(w) ==
    after_cancel' = IF stop_event
                    THEN [after_cancel EXCEPT ![w].updates = @ + 1]
                    ELSE after_cancel

(* ------------------------------- Init --------------------------------- *)
\* EngineController.__init__
InitWith(n, fail, budget) ==
    /\ cap = budget
    /\ lock = Free
    /\ recent = NoRecent
    /\ after_cancel = [w \in Workers |-> NoCounts]
    /\ snapshot = InitialSnapshot(n)
    /\ stop_event = FALSE
    /\ thread = NoThread
    /\ events = Record(<<>>, "INFO", "Engine initialized", <<>>)
    /\ wpc = [w \in Workers |-> "unborn"]
    /\ wlocal = [w \in Workers |-> NoLocals]
    /\ cpc = [c \in Callers |-> "ready"]
    /\ clocal = [c \in Callers |-> NoCallerLocals]
    /\ ret = Returned("none", IDLE, InitialSnapshot(n), FALSE)
    /\ always_fail = fail

Init == \E n \in 1..MaxThreshold : InitWith(n, FALSE, MaxEvents)

(* ------------------------- public operations -------------------------- *)
\* start() that only treats Running as already started
StartIsNoop_M(s) == s = RUNNING

\* start(): the statuses in which the call is a no-op (line 37)
StartIsNoop(s) == s \in {RUNNING, STOPPING}

\* start(), lines 35-48
Start(c) ==
    /\ Ready(c)
    /\ IF StartIsNoop(snapshot.status)
       THEN /\ ret' = Returned("start", snapshot.status,
                               CloneSnapshot(snapshot, thread, wpc), FALSE)
            /\ UNCHANGED <<snapshot, stop_event, thread, events, wpc, wlocal, after_cancel>>
       ELSE /\ Budget
            /\ thread < MaxWorkers
            /\ stop_event' = FALSE
            /\ after_cancel' = [w \in Workers |-> NoCounts]
            /\ snapshot' = [snapshot EXCEPT !.status = RUNNING,
                                            !.last_error = NoError,
                                            !.consecutive_failures = 0,
                                            !.thread_alive = TRUE]
            /\ thread' = thread + 1
            /\ wpc' = [wpc EXCEPT ![thread + 1] = "loop"]
            /\ wlocal' = [wlocal EXCEPT ![thread + 1] = NoLocals]
            /\ events' = Record(events, "INFO", "Engine started", <<>>)
            /\ ret' = Returned("start", snapshot.status,
                               CloneSnapshot(snapshot', thread', wpc'), FALSE)
    /\ UNCHANGED <<cpc, clocal, always_fail, cap, recent>>
    /\ WithLock(CallerId(c))

\* the snapshot stop() leaves when it finds status ERROR (lines 55-57)
StopFromError(s) == [s EXCEPT !.status = IDLE, !.thread_alive = FALSE]

\* stop(), first locked block, lines 50-64
StopBegin(c) ==
    /\ Ready(c)
    /\ IF snapshot.status = IDLE
       THEN /\ ret' = Returned("stop", snapshot.status,
                               CloneSnapshot(snapshot, thread, wpc), FALSE)
            /\ UNCHANGED <<snapshot, stop_event, events, cpc, clocal>>
       ELSE IF snapshot.status = ERROR
       THEN /\ Budget
            /\ snapshot' = StopFromError(snapshot)
            /\ events' = Record(events, "INFO", "Engine reset to IDLE from ERROR", <<>>)
            /\ ret' = Returned("stop", snapshot.status,
                               CloneSnapshot(snapshot', thread, wpc), FALSE)
            /\ UNCHANGED <<stop_event, cpc, clocal>>
       ELSE /\ Budget
            /\ snapshot' = [snapshot EXCEPT !.status = STOPPING]
            /\ stop_event' = TRUE
            /\ events' = Record(events, "INFO", "Stop requested", <<>>)
            /\ clocal' = [clocal EXCEPT ![c] = [handle |-> thread,
                                                entry |-> snapshot.status,
                                                exited |-> FALSE]]
            /\ cpc' = [cpc EXCEPT ![c] = "join"]
            /\ UNCHANGED ret
    /\ UNCHANGED <<thread, wpc, wlocal, always_fail, cap, recent, after_cancel>>
    /\ WithLock(CallerId(c))

\* stop(), lines 66-67: thread.join(timeout=...) returns, either because the
\* thread has exited or because the timeout elapsed with the thread alive
StopJoin(c) ==
    /\ cpc[c] = "join"
    /\ cpc' = [cpc EXCEPT ![c] = "joined"]
    /\ clocal' = [clocal EXCEPT ![c].exited = ~IsAlive(clocal[c].handle)]
    /\ UNCHANGED <<snapshot, stop_event, thread, events, wpc, wlocal, ret, always_fail, cap, lock, recent, after_cancel>>

\* the snapshot stop()'s second locked block leaves (lines 70-72)
StopSettle(s, alive) ==
    [s EXCEPT !.thread_alive = alive,
              !.status = IF s.status = STOPPING /\ ~alive THEN IDLE ELSE s.status]

\* stop(), second locked block, lines 69-74
StopFinish(c) ==
    /\ cpc[c] = "joined"
    /\ snapshot' = StopSettle(snapshot, IsAlive(thread))
    /\ ret' = Returned("stop", clocal[c].entry,
                       CloneSnapshot(snapshot', thread, wpc), clocal[c].exited)
    /\ cpc' = [cpc EXCEPT ![c] = "ready"]
    /\ clocal' = [clocal EXCEPT ![c] = NoCallerLocals]
    /\ UNCHANGED <<stop_event, thread, events, wpc, wlocal, always_fail, cap, recent, after_cancel>>
    /\ WithLock(CallerId(c))

\* reset() without the Running guard
ResetIsRefused_M(s) == FALSE

\* reset(): the statuses in which the call is refused (line 78)
ResetIsRefused(s) == s = RUNNING

\* reset(), lines 76-87
Reset(c) ==
    /\ Ready(c)
    /\ Budget
    /\ IF ResetIsRefused(snapshot.status)
       THEN /\ events' = Record(events, "WARN", "Reset ignored while RUNNING. Use stop first.", <<>>)
            /\ UNCHANGED snapshot
       ELSE /\ snapshot' = [snapshot EXCEPT !.status = IDLE,
                                            !.last_error = NoError,
                                            !.consecutive_failures = 0,
                                            !.thread_alive = FALSE]
            /\ events' = Record(events, "INFO", "Engine reset", <<>>)
    /\ ret' = Returned("reset", snapshot.status,
                       CloneSnapshot(snapshot', thread, wpc), FALSE)
    /\ UNCHANGED <<stop_event, thread, wpc, wlocal, cpc, clocal, always_fail, cap, recent, after_cancel>>
    /\ WithLock(CallerId(c))

\* status(), lines 89-91
Status(c) ==
    /\ Ready(c)
    /\ ret' = Returned("status", snapshot.status,
                       CloneSnapshot(snapshot, thread, wpc), FALSE)
    /\ UNCHANGED <<snapshot, stop_event, thread, events, wpc, wlocal, cpc, clocal, always_fail, cap, recent, after_cancel>>
    /\ WithLock(CallerId(c))

(* ----------------------------- worker --------------------------------- *)
\* _run_loop line 105: `while not self._stop_event.is_set()`
LoopTest(w) ==
    /\ wpc[w] = "loop"
    /\ IF stop_event
       THEN wpc' = [wpc EXCEPT ![w] = "exit"]
       ELSE /\ Budget
            /\ wpc' = [wpc EXCEPT ![w] = "fetch"]
    /\ wlocal' = [wlocal EXCEPT ![w] = NoLocals]
    /\ UNCHANGED <<snapshot, stop_event, thread, events, cpc, clocal, ret, always_fail, cap, lock, recent, after_cancel>>

\* line 107: _fetch_price returns a price
FetchOk(w) ==
    /\ wpc[w] = "fetch"
    /\ ~always_fail
    /\ \E p \in Prices : wlocal' = [wlocal EXCEPT ![w].price = p]
    /\ wpc' = [wpc EXCEPT ![w] = "read_previous"]
    /\ UNCHANGED <<snapshot, stop_event, thread, events, cpc, clocal, ret, always_fail, cap, lock, recent>>
    /\ CountFetch(w)

\* line 107 / 119: _fetch_price raises
FetchFail(w) ==
    /\ wpc[w] = "fetch"
    /\ \E e \in Failures : wlocal' = [wlocal EXCEPT ![w].exc = e]
    /\ wpc' = [wpc EXCEPT ![w] = "count_failure"]
    /\ UNCHANGED <<snapshot, stop_event, thread, events, cpc, clocal, ret, always_fail, cap, lock, recent>>
    /\ CountFetch(w)

\* lines 108-110: read last_price under the lock, compute the signal
ReadPrevious(w) ==
    /\ wpc[w] = "read_previous"
    /\ wlocal' = [wlocal EXCEPT ![w].previous_price = snapshot.last_price,
                                ![w].signal = MakeSignal(snapshot.last_price, wlocal[w].price)]
    /\ wpc' = [wpc EXCEPT ![w] = "update"]
    /\ UNCHANGED <<snapshot, stop_event, thread, events, cpc, clocal, ret, always_fail, cap, recent, after_cancel>>
    /\ WithLock(WorkerId(w))

\* a successful poll that does not count the iteration
Polled_M(s, price, signal) ==
    [s EXCEPT !.last_price = price,
              !.last_signal = signal,
              !.consecutive_failures = 0]

\* the snapshot after a successful poll (lines 113-116)
Polled(s, price, signal) ==
    [s EXCEPT !.iteration = s.iteration + 1,
              !.last_price = price,
              !.last_signal = signal,
              !.consecutive_failures = 0]

\* lines 112-117
UpdateSnapshot(w) ==
    /\ wpc[w] = "update"
    /\ snapshot' = Polled(snapshot, wlocal[w].price, wlocal[w].signal)
    /\ wpc' = [wpc EXCEPT ![w] = "tick"]
    /\ UNCHANGED <<stop_event, thread, events, wlocal, cpc, clocal, ret, always_fail, cap, recent>>
    /\ WithLock(WorkerId(w))
    /\ CountUpdate(w)

\* line 118: the tick event, formatted from an unlocked read of iteration
RecordTick(w) ==
    /\ wpc[w] = "tick"
    /\ events' = Record(events, "INFO", "tick",
                        <<snapshot.iteration, wlocal[w].price, wlocal[w].signal>>)
    /\ wpc' = [wpc EXCEPT ![w] = "sleep"]
    /\ UNCHANGED <<snapshot, stop_event, thread, wlocal, cpc, clocal, ret, always_fail, cap, lock, recent, after_cancel>>

\* a sleep after which the next fetch begins without the loop test
Sleep_M(w) ==
    /\ wpc[w] = "sleep"
    /\ wpc' = [wpc EXCEPT ![w] = "fetch"]
    /\ wlocal' = [wlocal EXCEPT ![w] = NoLocals]
    /\ UNCHANGED <<snapshot, stop_event, thread, events, cpc, clocal, ret, always_fail, cap, lock, recent, after_cancel>>

\* line 139: time.sleep(self._loop_interval_sec), then the next iteration
Sleep(w) ==
    /\ wpc[w] = "sleep"
    /\ wpc' = [wpc EXCEPT ![w] = "loop"]
    /\ wlocal' = [wlocal EXCEPT ![w] = NoLocals]
    /\ UNCHANGED <<snapshot, stop_event, thread, events, cpc, clocal, ret, always_fail, cap, lock, recent, after_cancel>>

\* a failure handler that counts the failure but drops its description
Failed_M(s, exc) ==
    [s EXCEPT !.consecutive_failures = s.consecutive_failures + 1]

\* the snapshot after a failed fetch (lines 121-123)
Failed(s, exc) ==
    [s EXCEPT !.consecutive_failures = s.consecutive_failures + 1,
              !.last_error = exc]

\* lines 120-124
CountFailure(w) ==
    /\ wpc[w] = "count_failure"
    /\ snapshot' = Failed(snapshot, wlocal[w].exc)
    /\ wlocal' = [wlocal EXCEPT ![w].failures = snapshot'.consecutive_failures]
    /\ wpc' = [wpc EXCEPT ![w] = "record_failure"]
    /\ UNCHANGED <<stop_event, thread, events, cpc, clocal, ret, always_fail, cap, recent>>
    /\ WithLock(WorkerId(w))
    /\ CountUpdate(w)

\* a threshold test that is off by one
IsFatal_M(failures, max) == failures > max

\* line 128: `failures >= self._max_consecutive_failures`
IsFatal(failures, max) == failures >= max

\* lines 126-128: the Loop error event, then the threshold test
RecordFailure(w) ==
    /\ wpc[w] = "record_failure"
    /\ events' = Record(events, "ERROR", "Loop error",
                        <<wlocal[w].failures, snapshot.max_consecutive_failures, wlocal[w].exc>>)
    /\ wpc' = [wpc EXCEPT ![w] =
                  IF IsFatal(wlocal[w].failures, snapshot.max_consecutive_failures)
                  THEN "switch_to_error" ELSE "backoff"]
    /\ UNCHANGED <<snapshot, stop_event, thread, wlocal, cpc, clocal, ret, always_fail, cap, lock, recent, after_cancel>>

\* a fatal-failure handler that clears thread_alive but leaves the status
SwitchToError_M(w) ==
    /\ wpc[w] = "switch_to_error"
    /\ snapshot' = [snapshot EXCEPT !.thread_alive = FALSE]
    /\ wpc' = [wpc EXCEPT ![w] = "record_error"]
    /\ UNCHANGED <<stop_event, thread, events, wlocal, cpc, clocal, ret, always_fail, cap, recent, after_cancel>>
    /\ WithLock(WorkerId(w))

\* lines 129-132
SwitchToError(w) ==
    /\ wpc[w] = "switch_to_error"
    /\ snapshot' = [snapshot EXCEPT !.status = ERROR, !.thread_alive = FALSE]
    /\ wpc' = [wpc EXCEPT ![w] = "record_error"]
    /\ UNCHANGED <<stop_event, thread, events, wlocal, cpc, clocal, ret, always_fail, cap, recent, after_cancel>>
    /\ WithLock(WorkerId(w))

\* lines 133-134: the terminal Error event, then return
RecordError(w) ==
    /\ wpc[w] = "record_error"
    /\ events' = Record(events, "ERROR", "Engine switched to ERROR due to repeated failures", <<>>)
    /\ wpc' = [wpc EXCEPT ![w] = "done"]
    /\ wlocal' = [wlocal EXCEPT ![w] = NoLocals]
    /\ UNCHANGED <<snapshot, stop_event, thread, cpc, clocal, ret, always_fail, cap, lock, recent, after_cancel>>

\* lines 136-137: time.sleep(min(interval, 1.0)); continue (the local
\* `failures` is still set when the loop test runs next)
Backoff(w) ==
    /\ wpc[w] = "backoff"
    /\ wpc' = [wpc EXCEPT ![w] = "loop"]
    /\ wlocal' = [wlocal EXCEPT ![w] = [NoLocals EXCEPT !.failures = wlocal[w].failures]]
    /\ UNCHANGED <<snapshot, stop_event, thread, events, cpc, clocal, ret, always_fail, cap, lock, recent, after_cancel>>

\* lines 141-144: the loop fell through
ExitToIdle(w) ==
    /\ wpc[w] = "exit"
    /\ snapshot' = [snapshot EXCEPT !.status = IDLE, !.thread_alive = FALSE]
    /\ wpc' = [wpc EXCEPT ![w] = "record_stopped"]
    /\ UNCHANGED <<stop_event, thread, events, wlocal, cpc, clocal, ret, always_fail, cap, recent, after_cancel>>
    /\ WithLock(WorkerId(w))

\* line 145, then _run_loop returns
RecordStopped(w) ==
    /\ wpc[w] = "record_stopped"
    /\ events' = Record(events, "INFO", "Engine stopped", <<>>)
    /\ wpc' = [wpc EXCEPT ![w] = "done"]
    /\ UNCHANGED <<snapshot, stop_event, thread, wlocal, cpc, clocal, ret, always_fail, cap, lock, recent, after_cancel>>

\* one step of worker w
WorkerStep(w) ==
    \/ LoopTest(w)
    \/ FetchOk(w)
    \/ FetchFail(w)
    \/ ReadPrevious(w)
    \/ UpdateSnapshot(w)
    \/ RecordTick(w)
    \/ Sleep(w)
    \/ CountFailure(w)
    \/ RecordFailure(w)
    \/ SwitchToError(w)
    \/ RecordError(w)
    \/ Backoff(w)
    \/ ExitToIdle(w)
    \/ RecordStopped(w)

(* ------------------------- specifications ----------------------------- *)
Next ==
    \/ \E c \in Callers : Start(c)
    \/ \E c \in Callers : StopBegin(c)
    \/ \E c \in Callers : StopJoin(c)
    \/ \E c \in Callers : StopFinish(c)
    \/ \E c \in Callers : Reset(c)
    \/ \E c \in Callers : Status(c)
    \/ \E w \in Workers : WorkerStep(w)

Spec == Init /\ [][Next]_vars

\* test_engine_error_transition_with_failure_threshold: a fresh controller
\* whose _fetch_price always raises; start() is called once and callers
\* afterwards only poll status()
FailInit == \E n \in 1..FailMaxThreshold : InitWith(n, TRUE, MaxEvents)

FailWorkerStep(w) ==
    \/ LoopTest(w)
    \/ FetchFail(w)
    \/ CountFailure(w)
    \/ RecordFailure(w)
    \/ SwitchToError(w)
    \/ RecordError(w)
    \/ Backoff(w)

FailNext ==
    \/ \E c \in Callers : thread = NoThread /\ Start(c)
    \/ \E c \in Callers : Status(c)
    \/ \E w \in Workers : FailWorkerStep(w)

\* a started thread keeps running: a fetch returns or raises, a sleep ends
FailSpec == FailInit /\ [][FailNext]_vars /\ WF_vars(\E w \in Workers : FailWorkerStep(w))

\* one start(), then only stop() calls: the scenario of a shutdown.  The
\* worker keeps running (every fetch returns or raises, every sleep ends),
\* a join returns when the thread ends or the timeout elapses, and a stop()
\* that has left its join runs its second locked block
StopInit == \E n \in 1..MaxThreshold : InitWith(n, FALSE, MaxEvents)

StopNext ==
    \/ \E c \in Callers : thread = NoThread /\ Start(c)
    \/ \E c \in Callers : StopBegin(c)
    \/ \E c \in Callers : StopJoin(c)
    \/ \E c \in Callers : StopFinish(c)
    \/ \E w \in Workers : WorkerStep(w)

StopSpec ==
    /\ StopInit
    /\ [][StopNext]_vars
    /\ WF_vars(\E w \in Workers : WorkerStep(w))
    /\ WF_vars(\E c \in Callers : StopJoin(c))
    /\ WF_vars(\E c \in Callers : StopFinish(c))

(* ---------------------- the lock, step by step ----------------------- *)
\* the positions of _run_loop that open a `with self._lock:` block
\* (lines 108, 112, 120, 129, 141)
LockedPositions_M == {"fetch", "read_previous", "update", "count_failure", "switch_to_error", "exit"}

LockedPositions == {"read_previous", "update", "count_failure", "switch_to_error", "exit"}

\* a caller enters the `with self._lock:` of start/stop/reset/status
\* (lines 36, 51, 77, 90) or of stop()'s second block (line 69)
CallerAcquire(c) ==
    /\ Ready(c) \/ cpc[c] = "joined"
    /\ lock = Free
    /\ lock' = CallerId(c)
    /\ UNCHANGED <<snapshot, stop_event, thread, events, wpc, wlocal, cpc, clocal, ret,
                   always_fail, cap, recent, after_cancel>>

\* a worker enters one of its `with self._lock:` blocks
WorkerAcquire(w) ==
    /\ wpc[w] \in LockedPositions
    /\ lock = Free
    /\ lock' = WorkerId(w)
    /\ UNCHANGED <<snapshot, stop_event, thread, events, wpc, wlocal, cpc, clocal, ret,
                   always_fail, cap, recent, after_cancel>>

\* the locked blocks of the public operations
LockedCallerStep(c) ==
    \/ Start(c)
    \/ StopBegin(c)
    \/ StopFinish(c)
    \/ Reset(c)
    \/ Status(c)

\* the locked blocks of _run_loop
LockedWorkerStep(w) ==
    \/ ReadPrevious(w)
    \/ UpdateSnapshot(w)
    \/ CountFailure(w)
    \/ SwitchToError(w)
    \/ ExitToIdle(w)

\* the statements of _run_loop outside any `with self._lock:` block
UnlockedWorkerStep(w) ==
    \/ LoopTest(w)
    \/ FetchOk(w)
    \/ FetchFail(w)
    \/ RecordTick(w)
    \/ Sleep(w)
    \/ RecordFailure(w)
    \/ RecordError(w)
    \/ Backoff(w)
    \/ RecordStopped(w)

LockInit == \E n \in 1..MaxThreshold : InitWith(n, FALSE, LockMaxEvents)

\* every locked block is entered by an acquire step of its own
LockNext ==
    \/ \E c \in Callers : CallerAcquire(c)
    \/ \E c \in Callers : lock = CallerId(c) /\ LockedCallerStep(c)
    \/ \E c \in Callers : StopJoin(c)
    \/ \E w \in Workers : WorkerAcquire(w)
    \/ \E w \in Workers : lock = WorkerId(w) /\ LockedWorkerStep(w)
    \/ \E w \in Workers : UnlockedWorkerStep(w)

LockSpec == LockInit /\ [][LockNext]_vars

(* --------------------- a restart over a slow fetch -------------------- *)
\* a second worker has been spawned
Restarted == thread > 1

\* what a worker does once its fetch has been entered
AfterLoopTest(w) ==
    \/ FetchOk(w)
    \/ FetchFail(w)
    \/ ReadPrevious(w)
    \/ UpdateSnapshot(w)
    \/ RecordTick(w)
    \/ Sleep(w)
    \/ CountFailure(w)
    \/ RecordFailure(w)
    \/ SwitchToError(w)
    \/ RecordError(w)
    \/ Backoff(w)
    \/ ExitToIdle(w)
    \/ RecordStopped(w)

RaceInit == \E n \in 1..MaxThreshold : InitWith(n, FALSE, RaceMaxEvents)

\* the first worker's fetch is slow (httpx timeout 10 s, line 149): until
\* the engine has been started a second time the worker only reaches its
\* loop test, and callers start, stop and reset the engine; afterwards the
\* callers only finish the calls they are in and read the status
RaceNext ==
    \/ \E c \in Callers : Start(c)
    \/ \E c \in Callers : ~Restarted /\ StopBegin(c)
    \/ \E c \in Callers : StopJoin(c)
    \/ \E c \in Callers : StopFinish(c)
    \/ \E c \in Callers : ~Restarted /\ Reset(c)
    \/ \E c \in Callers : Restarted /\ Status(c)
    \/ \E w \in Workers : LoopTest(w)
    \/ \E w \in Workers : Restarted /\ AfterLoopTest(w)

RaceSpec == RaceInit /\ [][RaceNext]_vars

(* ------------------------- a long event log --------------------------- *)
\* list(q)[-limit:] for limit >= 0: -0 is 0, so limit 0 slices from the
\* front and yields the whole list; a limit of len(q) or more does too
LastOf(q, limit) ==
    IF limit = 0 \/ limit >= Len(q) THEN q
    ELSE SubSeq(q, Len(q) - limit + 1, Len(q))

\* recent_events(limit), lines 98-99 (takes no lock)
RecentEvents(c) ==
    /\ Ready(c)
    /\ \E limit \in Limits :
          recent' = [called |-> TRUE, limit |-> limit, entries |-> LastOf(events, limit)]
    /\ UNCHANGED <<snapshot, stop_event, thread, events, wpc, wlocal, cpc, clocal, ret,
                   always_fail, cap, lock, after_cancel>>

\* the snapshot and the log after start() and k successful polls at price 1
PolledSnapshot(n, k) ==
    [InitialSnapshot(n) EXCEPT !.status = RUNNING,
                               !.thread_alive = TRUE,
                               !.iteration = k,
                               !.last_price = IF k = 0 THEN NoPrice ELSE 1]

PolledLog(k) ==
    [i \in 1..(k + 2) |->
        IF i = 1 THEN Event("INFO", "Engine initialized", <<>>)
        ELSE IF i = 2 THEN Event("INFO", "Engine started", <<>>)
        ELSE Event("INFO", "tick", <<i - 2, 1, "HOLD">>)]

\* an engine that was started and has polled k times, the worker asleep
\* between two polls; the log is short, or one or two entries from full
LogInit ==
    \E k \in {1, 2, EventCapacity - 3, EventCapacity - 2} :
        /\ cap = k + 2 + LogMaxEvents
        /\ lock = Free
        /\ recent = NoRecent
        /\ after_cancel = [w \in Workers |-> NoCounts]
        /\ snapshot = PolledSnapshot(1, k)
        /\ stop_event = FALSE
        /\ thread = 1
        /\ events = PolledLog(k)
        /\ wpc = [w \in Workers |-> IF w = 1 THEN "sleep" ELSE "unborn"]
        /\ wlocal = [w \in Workers |-> NoLocals]
        /\ cpc = [c \in Callers |-> "ready"]
        /\ clocal = [c \in Callers |-> NoCallerLocals]
        /\ ret = Returned("start", IDLE, PolledSnapshot(1, 0), FALSE)
        /\ always_fail = FALSE

\* the worker keeps polling with success while callers read the log; a full
\* log no longer grows, so the polls are counted by iteration (the log
\* holds the two opening events and one tick per poll)
LogNext ==
    \/ \E c \in Callers : RecentEvents(c)
    \/ \E w \in Workers : snapshot.iteration + 2 < cap /\ LoopTest(w)
    \/ \E w \in Workers : FetchOk(w)
    \/ \E w \in Workers : ReadPrevious(w)
    \/ \E w \in Workers : UpdateSnapshot(w)
    \/ \E w \in Workers : RecordTick(w)
    \/ \E w \in Workers : Sleep(w)

LogSpec == LogInit /\ [][LogNext]_vars

(* ------------------------------ claims -------------------------------- *)
AliveWorkers == {w \in Workers : IsAlive(w)}

\* the status changes section 4.1 of the specification lists as legal
LegalTransitions ==
    {<<IDLE, RUNNING>>, <<RUNNING, STOPPING>>, <<STOPPING, IDLE>>,
     <<RUNNING, ERROR>>, <<ERROR, IDLE>>}

\* C1: over every interleaving of start, stop, reset and worker steps the
\* status only changes along Idle->Running, Running->Stopping,
\* Stopping->Idle, Running->Error and Error->Idle.
C1_OnlyLegalTransitions ==
    [][snapshot'.status # snapshot.status
         => <<snapshot.status, snapshot'.status>> \in LegalTransitions]_vars

\* C2: at most one worker thread is alive at any time.
C2_AtMostOneWorker == Cardinality(AliveWorkers) <= 1

\* a step of caller c that the specification defines as a no-op
NoopCall(c) ==
    \/ snapshot.status \in {RUNNING, STOPPING} /\ Start(c)
    \/ snapshot.status = IDLE /\ StopBegin(c)

\* C3: start() while Running or Stopping, and stop() while Idle, change no
\* snapshot field, leave the cancellation signal alone, spawn no worker and
\* append no event; they only return a copy of the current snapshot.
C3_NoopCallsChangeNothing ==
    [][\A c \in Callers : NoopCall(c) =>
          /\ UNCHANGED <<snapshot, stop_event, thread, events, wpc, wlocal, cpc, clocal>>
          /\ ret'.status = snapshot.status
          /\ ret'.iteration = snapshot.iteration
          /\ ret'.last_price = snapshot.last_price
          /\ ret'.last_signal = snapshot.last_signal
          /\ ret'.last_error = snapshot.last_error
          /\ ret'.consecutive_failures = snapshot.consecutive_failures]_vars

\* a start() that found the engine Stopping has returned, after a poll
C3_Witness ==
    /\ ret.op = "start"
    /\ ret.pre = STOPPING
    /\ ret.status = STOPPING
    /\ ret.iteration >= 1

\* C4: in every snapshot a public operation returns, workerAlive is true
\* only if status is Running or Stopping.
C4_AliveOnlyWhileRunningOrStopping ==
    (ret.op # "none" /\ ret.thread_alive) => ret.status \in {RUNNING, STOPPING}

\* C5: in every snapshot a public operation returns, status Running or
\* Stopping implies workerAlive is true.
C5_RunningOrStoppingImpliesAlive ==
    (ret.op # "none" /\ ret.status \in {RUNNING, STOPPING}) => ret.thread_alive

\* a snapshot reporting Running was returned after an earlier worker ended
C5_Witness ==
    /\ ret.op = "status"
    /\ ret.status = RUNNING
    /\ ret.thread_alive
    /\ thread = 2
    /\ wpc[1] = "done"

\* C6: with maxConsecutiveFailures = N and a price source whose every fetch
\* fails, after start() and with no further caller operations the engine
\* eventually reaches, and then stays in, a state with status Error,
\* consecutiveFailures >= N and a non-empty lastError.
C6_AlwaysFailingEndsInError ==
    [](thread # NoThread =>
         <>[](/\ snapshot.status = ERROR
              /\ snapshot.consecutive_failures >= snapshot.max_consecutive_failures
              /\ snapshot.last_error \in Failures))

\* the worker has given up after at least two failed fetches
C6_Witness ==
    /\ always_fail
    /\ snapshot.max_consecutive_failures >= 2
    /\ wpc[1] = "done"
    /\ snapshot.status = ERROR
    /\ snapshot.consecutive_failures >= snapshot.max_consecutive_failures

\* C7: every transition of status out of Error leaves consecutiveFailures
\* equal to 0.
C7_LeavingErrorResetsFailures ==
    [][(snapshot.status = ERROR /\ snapshot'.status # ERROR)
         => snapshot'.consecutive_failures = 0]_vars

\* events' is events with exactly one event of the given level appended
OneAppended(level) ==
    /\ Len(events') = Len(events) + 1
    /\ SubSeq(events', 1, Len(events)) = events
    /\ events'[Len(events')].level = level

\* C8: reset() while status is Running is refused: status stays Running,
\* consecutiveFailures and lastError are not modified, the cancellation
\* signal and the worker are untouched, and exactly one Warn event is
\* appended.
C8_ResetRefusedWhileRunning ==
    [][\A c \in Callers : (Reset(c) /\ snapshot.status = RUNNING) =>
          /\ snapshot'.status = RUNNING
          /\ snapshot'.consecutive_failures = snapshot.consecutive_failures
          /\ snapshot'.last_error = snapshot.last_error
          /\ UNCHANGED <<stop_event, thread, wpc, wlocal>>
          /\ OneAppended("WARN")
          /\ ret'.status = RUNNING]_vars

\* a reset() was refused while a failure was already counted
C8_Witness ==
    /\ ret.op = "reset"
    /\ ret.pre = RUNNING
    /\ ret.status = RUNNING
    /\ ret.consecutive_failures >= 1
    /\ events[Len(events)].level = "WARN"

\* C9: reset() while status is Idle, Stopping or Error returns a snapshot
\* with status Idle, lastError empty, consecutiveFailures 0 and workerAlive
\* false, and appends one Info event.
C9_ResetReturnsCleanIdle ==
    [][\A c \in Callers : (Reset(c) /\ snapshot.status \in {IDLE, STOPPING, ERROR}) =>
          /\ ret'.status = IDLE
          /\ ret'.last_error = NoError
          /\ ret'.consecutive_failures = 0
          /\ ~ret'.thread_alive
          /\ OneAppended("INFO")]_vars

\* C10: a stop() that found status Running returns Idle with workerAlive
\* false if the worker had exited by the end of the wait, and Stopping with
\* workerAlive true if the wait timed out with the worker still alive.
C10_StopOutcome ==
    (ret.op = "stop" /\ ret.pre = RUNNING) =>
        IF ret.exited
        THEN ret.status = IDLE /\ ~ret.thread_alive
        ELSE ret.status = STOPPING /\ ret.thread_alive

\* C11: after stop() has signalled cancellation on a Running engine, with
\* every fetch returning and no later start(), the worker eventually
\* terminates and status eventually becomes Idle.
C11_StopLeadsToIdle ==
    stop_event ~> (~IsAlive(thread) /\ snapshot.status = IDLE)

\* the thread holding the lock is inside a locked block, not in a fetch, a
\* sleep or stop()'s join, and can run its block to the end whatever the
\* other threads do
LockNeverHeldAcrossBlocking ==
    /\ \A w \in Workers : lock = WorkerId(w) =>
          /\ wpc[w] \in {"read_previous", "update", "count_failure", "switch_to_error", "exit"}
          /\ ENABLED (lock = WorkerId(w) /\ LockedWorkerStep(w))
    /\ \A c \in Callers : lock = CallerId(c) =>
          /\ cpc[c] \in {"ready", "joined"}
          /\ ENABLED (lock = CallerId(c) /\ LockedCallerStep(c))

\* a stop() that has begun can always go on: its join can return (it has a
\* timeout), and after the join it needs nothing but the lock
StopCanReturn ==
    \A c \in Callers :
        /\ cpc[c] = "join" => ENABLED StopJoin(c)
        /\ (cpc[c] = "joined" /\ lock = Free) => ENABLED CallerAcquire(c)
        /\ (cpc[c] = "joined" /\ lock = CallerId(c)) => ENABLED StopFinish(c)

\* C12: no interleaving of callers and the worker deadlocks: the lock is
\* never held across a price fetch, a sleep or stop()'s wait, so the holder
\* of the lock always finishes its block without waiting for anyone (a call
\* of start(), reset() or status() is one such block), and a stop() call can
\* always take its next step towards returning.
C12_NoDeadlock == LockNeverHeldAcrossBlocking /\ StopCanReturn

\* a stop() has left its join and waits for the lock while a worker holds it
C12_Witness ==
    /\ cpc[1] = "joined"
    /\ lock = WorkerId(1)
    /\ wpc[1] = "exit"

\* the steps of worker w that read or write a field of self._snapshot: its
\* locked blocks, and the tick event of line 118 (self._snapshot.iteration)
WorkerTouchesSnapshot(w) == LockedWorkerStep(w) \/ RecordTick(w)

\* C17: every read and every write of a snapshot field, by the public
\* operations and by the worker loop alike, happens while the acting thread
\* holds the controller's lock.
C17_SnapshotOnlyUnderLock ==
    [][/\ \A w \in Workers : WorkerTouchesSnapshot(w) => lock = WorkerId(w)
       /\ \A c \in Callers : LockedCallerStep(c) => lock = CallerId(c)]_vars

\* a public call that can take the engine out of Error
CallerInvocation == \E c \in Callers : Start(c) \/ StopBegin(c) \/ Reset(c)

\* C13: once status is Error, until a caller invokes start(), stop() or
\* reset(): status stays Error, no further price fetch is performed, and
\* iteration, lastPrice, lastSignal, lastError and consecutiveFailures do
\* not change.
C13_ErrorIsQuiescent ==
    [][(snapshot.status = ERROR /\ ~CallerInvocation) =>
          /\ snapshot'.status = ERROR
          /\ ~(\E w \in Workers : LoopTest(w) /\ wpc'[w] = "fetch")
          /\ snapshot'.iteration = snapshot.iteration
          /\ snapshot'.last_price = snapshot.last_price
          /\ snapshot'.last_signal = snapshot.last_signal
          /\ snapshot'.last_error = snapshot.last_error
          /\ snapshot'.consecutive_failures = snapshot.consecutive_failures]_vars

\* the signal the specification prescribes for a poll that finds last_price
\* = previous and fetches current
PrescribedSignal(previous, current) ==
    IF previous = NoPrice THEN "HOLD"
    ELSE IF current > previous THEN "BUY"
    ELSE IF current < previous THEN "SELL"
    ELSE "HOLD"

\* C14: for every successful poll, the lastSignal written is Hold if
\* lastPrice was unset immediately before the update, Buy if the new price
\* is greater than that previous lastPrice, Sell if it is smaller and Hold
\* if it is equal.
C14_SignalFollowsPreviousPrice ==
    [][\A w \in Workers : UpdateSnapshot(w) =>
          snapshot'.last_signal =
              PrescribedSignal(snapshot.last_price, snapshot'.last_price)]_vars

\* C15: for every limit >= 0 and after any number of appended events,
\* recent_events(limit) returns at most limit entries and at most the log
\* capacity; the log itself never holds more than its capacity, the oldest
\* entry being evicted on insertion when the log is full.
C15_RecentEventsBounded ==
    [][/\ recent'.called =>
             /\ Len(recent'.entries) <= recent'.limit
             /\ Len(recent'.entries) <= EventCapacity
       /\ Len(events') <= EventCapacity
       /\ (Len(events) = EventCapacity /\ events' # events) =>
             SubSeq(events', 1, EventCapacity - 1) = Tail(events)]_vars

\* C16: the sequence returned by recent_events(limit) is ordered most
\* recent first: its first element is the event appended last, and the
\* elements are in reverse order of insertion.
C16_MostRecentFirst ==
    [][\A c \in Callers : RecentEvents(c) =>
          \A i \in 1..Len(recent'.entries) :
              recent'.entries[i] = events[Len(events) - i + 1]]_vars

\* the steps that the failure count depends on
FailureHandled == \E w \in Workers : CountFailure(w)
PollApplied == \E w \in Workers : UpdateSnapshot(w)
AcceptedStart ==
    /\ ~StartIsNoop(snapshot.status)
    /\ thread' # thread
    /\ \E c \in Callers : Start(c)
AcceptedReset ==
    /\ ~ResetIsRefused(snapshot.status)
    /\ events' # events
    /\ \E c \in Callers : Reset(c)

\* consecutive_failures counts the failed fetches (each counted when its
\* handler runs) since the latest successful poll, start() or accepted
\* reset(): it grows by one per failed fetch, those three set it to 0, and
\* nothing else changes it
FailureCountRule ==
    IF FailureHandled
    THEN snapshot'.consecutive_failures = snapshot.consecutive_failures + 1
    ELSE IF PollApplied \/ AcceptedStart \/ AcceptedReset
    THEN snapshot'.consecutive_failures = 0
    ELSE snapshot'.consecutive_failures = snapshot.consecutive_failures

\* a failed fetch that leaves the count below the threshold does not change
\* the status, and worker w goes through the backoff to its loop test
BelowThresholdBacksOff(w) ==
    /\ CountFailure(w) => snapshot'.status = snapshot.status
    /\ RecordFailure(w) =>
          (wpc'[w] = "backoff" <=>
              wlocal[w].failures < snapshot.max_consecutive_failures)
    /\ Backoff(w) => wpc'[w] = "loop" /\ snapshot' = snapshot

\* worker w reaches its loop test from the backoff of a failed fetch
RetryTest(w) == wlocal[w].failures >= 1 /\ LoopTest(w)

\* C18 as stated: consecutive_failures equals the number of failed fetches
\* since the latest successful poll, start() or accepted reset(); a failed
\* fetch that leaves the count below the threshold does not change status
\* and the worker fetches again; a successful poll sets the count to 0.
C18_FailureCountAlwaysRetries ==
    [][/\ FailureCountRule
       /\ \A w \in Workers : BelowThresholdBacksOff(w)
       /\ \A w \in Workers : RetryTest(w) => wpc'[w] = "fetch"]_vars

\* C18, amended: as above, but after the backoff the worker fetches again
\* only if the cancellation signal has not been set; if it has, the worker
\* leaves the loop instead.
C18_FailureCount ==
    [][/\ FailureCountRule
       /\ \A w \in Workers : BelowThresholdBacksOff(w)
       /\ \A w \in Workers : RetryTest(w) =>
             wpc'[w] = IF stop_event THEN "exit" ELSE "fetch"]_vars

\* stop() was called during a fetch that then failed below the threshold,
\* and the worker has left its loop without fetching again
C18_Witness ==
    \E w \in Workers :
        /\ wpc[w] = "exit"
        /\ snapshot.status = STOPPING
        /\ after_cancel[w].updates = 1
        /\ snapshot.consecutive_failures >= 1
        /\ snapshot.consecutive_failures < snapshot.max_consecutive_failures

\* C19: after the cancellation signal is set by stop() and as long as it is
\* not cleared by a later start(), the worker completes at most one further
\* price fetch (the one it was committed to) and applies at most one
\* further snapshot update before leaving the loop.
C19_AtMostOnePollAfterCancel ==
    \A w \in Workers :
        /\ after_cancel[w].fetches <= 1
        /\ after_cancel[w].updates <= 1

\* stop() was called during a fetch; the fetch returned, its result was
\* applied, and the worker has left the loop
C19_Witness ==
    \E w \in Workers :
        /\ stop_event
        /\ wpc[w] = "exit"
        /\ after_cancel[w].fetches = 1
        /\ after_cancel[w].updates = 1

\* C20: iteration is the number of successful polls since construction: it
\* grows by exactly 1 with each successful poll and is left unchanged by
\* failed fetches and by start(), stop(), reset() and status(), so it never
\* decreases.
C20_IterationCountsPolls ==
    [][/\ PollApplied => snapshot'.iteration = snapshot.iteration + 1
       /\ ~PollApplied => snapshot'.iteration = snapshot.iteration]_vars

\* an accepted reset() has returned a snapshot that still shows the polls
\* made before it
C20_Witness ==
    /\ ret.op = "reset"
    /\ ret.pre = STOPPING
    /\ ret.status = IDLE
    /\ ret.iteration >= 1

\* C21: in every reachable state, under every interleaving of stop() and
\* reset() with a worker that is between counting its failure and switching
\* to Error, status = Error implies consecutive_failures >=
\* max_consecutive_failures and a last_error that is set.
C21_ErrorHasCause ==
    snapshot.status = ERROR =>
        /\ snapshot.consecutive_failures >= snapshot.max_consecutive_failures
        /\ snapshot.last_error # NoError

====
